---------------------------- MODULE Spec2Model ----------------------------
(***************************************************************************)
(* Model of tensorflow_addons/losses/giou_loss.py: the GIoULoss object,    *)
(* giou_loss and do_giou_calculate.                                        *)
(*                                                                         *)
(* A tensor of shape (N, 4) is a sequence of N boxes <<c0, c1, c2, c3>>;   *)
(* a tensor of shape (N,) is a sequence of N values.  Coordinates are      *)
(* integers, areas are integers, and a quotient is an exact rational       *)
(* <<numerator, denominator>> in lowest terms with denominator > 0.  The   *)
(* pair <<0, 0>> stands for a non-finite float (NaN or Inf).  Rounding and *)
(* overflow of the float dtype are outside the model.                      *)
(***************************************************************************)
EXTENDS Integers, Sequences, FiniteSets

\* Largest y coordinate (columns 0 and 2) of an enumerated box.
MaxY == 1
\* Largest x coordinate (columns 1 and 3) of an enumerated box.
MaxX == 3

VARIABLES self_mode, pc, y_true, y_pred, mode, frame, giou, loss

vars == <<self_mode, pc, y_true, y_pred, mode, frame, giou, loss>>

\* A tensor that has not been assigned yet.
Unset == <<>>

\* A mode that has not been assigned yet: no object, or no call in progress.
NoMode == "<none>"

----------------------------------------------------------------------------
\* Exact rational arithmetic standing for the float arithmetic.

Abs(n) == IF n < 0 THEN -n ELSE n

RECURSIVE GCD(_, _)
GCD(a, b) == IF b = 0 THEN a ELSE GCD(b, a % b)

NaN == <<0, 0>>

IsFinite(r) == r[2] # 0

\* n / d in lowest terms, d # 0.
Rat(n, d) ==
    LET s == IF d < 0 THEN -1 ELSE 1
        g == GCD(Abs(n), Abs(d))
    IN  <<(s * n) \div g, (s * d) \div g>>

FromInt(n) == <<n, 1>>

RatSub(a, b) ==
    IF IsFinite(a) /\ IsFinite(b)
    THEN Rat(a[1] * b[2] - b[1] * a[2], a[2] * b[2])
    ELSE NaN

----------------------------------------------------------------------------
\* Elementwise tensor operations, on the elements of one row: every
\* operation of do_giou_calculate is elementwise along the batch dimension,
\* and do_giou_calculate below applies them to each row of the batch.

tf_minimum(x, y) == IF x <= y THEN x ELSE y

tf_maximum(x, y) == IF x >= y THEN x ELSE y

\* Plain division: a zero denominator gives a non-finite value.
tf_divide(x, y) == IF y = 0 THEN NaN ELSE Rat(x, y)

\* tf.math.divide_no_nan: 0 where the denominator is 0.
divide_no_nan(x, y) == IF y = 0 THEN FromInt(0) ELSE Rat(x, y)

\* 1 - x along the batch, the scalar 1 broadcast.
OneMinus(x) == [i \in 1..Len(x) |-> RatSub(FromInt(1), x[i])]

\* tf.cast(x, dtype) / tf.convert_to_tensor(x): the two batches have the same
\* float dtype, and a cast to a tensor's own dtype returns its values.
tf_cast(x) == x

----------------------------------------------------------------------------
\* do_giou_calculate

zero == 0

\* The first corner as given, without the normalisation.
BoxMin_AsGiven(b, k) == b[k + 1]

\* tf.minimum(b[:, k], b[:, k + 2]): b_ymin (k = 0), b_xmin (k = 1).
BoxMin(b, k) == tf_minimum(b[k + 1], b[k + 3])

\* tf.maximum(b[:, k], b[:, k + 2]): b_ymax (k = 0), b_xmax (k = 1).
BoxMax(b, k) == tf_maximum(b[k + 1], b[k + 3])

\* The difference without the clamp at zero.
Extent_NoClamp(hi, lo) == hi - lo

\* tf.maximum(zero, hi - lo): a width or a height.
Extent(hi, lo) == tf_maximum(zero, hi - lo)

\* The intersection added instead of subtracted.
UnionArea_Plus(b1_area, b2_area, intersect_area) ==
    b1_area + b2_area + intersect_area

\* b1_area counted twice, b2_area not at all.
UnionArea_B1Twice(b1_area, b2_area, intersect_area) ==
    b1_area + b1_area - intersect_area

UnionArea(b1_area, b2_area, intersect_area) ==
    b1_area + b2_area - intersect_area

\* The enclosing area computed with the intersection's max-of-mins and
\* min-of-maxes.
EncloseArea_Inner(b1_ymin, b1_xmin, b1_ymax, b1_xmax, b2_ymin, b2_xmin, b2_ymax, b2_xmax) ==
    LET enclose_ymin == tf_maximum(b1_ymin, b2_ymin)
        enclose_xmin == tf_maximum(b1_xmin, b2_xmin)
        enclose_ymax == tf_minimum(b1_ymax, b2_ymax)
        enclose_xmax == tf_minimum(b1_xmax, b2_xmax)
        enclose_width == Extent(enclose_xmax, enclose_xmin)
        enclose_height == Extent(enclose_ymax, enclose_ymin)
    IN  enclose_width * enclose_height

EncloseArea(b1_ymin, b1_xmin, b1_ymax, b1_xmax, b2_ymin, b2_xmin, b2_ymax, b2_xmax) ==
    LET enclose_ymin == tf_minimum(b1_ymin, b2_ymin)
        enclose_xmin == tf_minimum(b1_xmin, b2_xmin)
        enclose_ymax == tf_maximum(b1_ymax, b2_ymax)
        enclose_xmax == tf_maximum(b1_xmax, b2_xmax)
        enclose_width == Extent(enclose_xmax, enclose_xmin)
        enclose_height == Extent(enclose_ymax, enclose_ymin)
    IN  enclose_width * enclose_height

\* One row of do_giou_calculate: its locals at the return, and the value
\* returned (ret).  In mode 'iou' the function returns before the enclosing box
\* is computed.
do_giou_calculate_row(b1, b2, m) ==
    LET b1_ymin == BoxMin(b1, 0)
        b1_xmin == BoxMin(b1, 1)
        b1_ymax == BoxMax(b1, 0)
        b1_xmax == BoxMax(b1, 1)
        b2_ymin == BoxMin(b2, 0)
        b2_xmin == BoxMin(b2, 1)
        b2_ymax == BoxMax(b2, 0)
        b2_xmax == BoxMax(b2, 1)
        b1_width == Extent(b1_xmax, b1_xmin)
        b1_height == Extent(b1_ymax, b1_ymin)
        b2_width == Extent(b2_xmax, b2_xmin)
        b2_height == Extent(b2_ymax, b2_ymin)
        b1_area == b1_width * b1_height
        b2_area == b2_width * b2_height
        intersect_ymin == tf_maximum(b1_ymin, b2_ymin)
        intersect_xmin == tf_maximum(b1_xmin, b2_xmin)
        intersect_ymax == tf_minimum(b1_ymax, b2_ymax)
        intersect_xmax == tf_minimum(b1_xmax, b2_xmax)
        intersect_width == Extent(intersect_xmax, intersect_xmin)
        intersect_height == Extent(intersect_ymax, intersect_ymin)
        intersect_area == intersect_width * intersect_height
        union_area == UnionArea(b1_area, b2_area, intersect_area)
        iou == divide_no_nan(intersect_area, union_area)
    IN  IF m = "iou"
        THEN [b1_area |-> b1_area, b2_area |-> b2_area,
              intersect_area |-> intersect_area, union_area |-> union_area,
              iou |-> iou, enclose_area |-> 0, penalty |-> FromInt(0),
              enclosed |-> FALSE, ret |-> iou]
        ELSE LET enclose_area ==
                     EncloseArea(b1_ymin, b1_xmin, b1_ymax, b1_xmax,
                                 b2_ymin, b2_xmin, b2_ymax, b2_xmax)
                 penalty == divide_no_nan(enclose_area - union_area, enclose_area)
             IN  [b1_area |-> b1_area, b2_area |-> b2_area,
                  intersect_area |-> intersect_area, union_area |-> union_area,
                  iou |-> iou, enclose_area |-> enclose_area, penalty |-> penalty,
                  enclosed |-> TRUE, ret |-> RatSub(iou, penalty)]

\* do_giou_calculate on two batches of the same length: row i of the result
\* comes from row i of b1 and row i of b2.
do_giou_calculate(b1, b2, m) ==
    [i \in 1..Len(b1) |-> do_giou_calculate_row(b1[i], b2[i], m)]

\* The tensor do_giou_calculate returns.
Returned_giou(f) == [i \in 1..Len(f) |-> f[i].ret]

----------------------------------------------------------------------------
\* Inputs.

\* Mode strings a caller may pass; "xiou" is not a legal one.
Modes == {"giou", "iou", "xiou"}

\* Only 'giou' is accepted.
ValidModes_GiouOnly == {"giou"}

\* ['giou', 'iou'] of the mode check.
ValidModes == {"giou", "iou"}

\* Boxes in any corner order, zero-area ones included.
Boxes == {<<c0, c1, c2, c3>> : c0 \in 0..MaxY, c1 \in 0..MaxX,
                               c2 \in 0..MaxY, c3 \in 0..MaxX}

\* boxes1 and boxes2 of the usage example in the GIoULoss docstring.
boxes1 == << <<4, 3, 7, 5>>, <<5, 6, 10, 7>> >>
boxes2 == << <<3, 4, 6, 8>>, <<14, 14, 15, 15>> >>

\* <<y_true, y_pred>> of a call: every batch of one pair, and the usage example.
Inputs == {<< <<a>>, <<b>> >> : a \in Boxes, b \in Boxes} \cup {<<boxes1, boxes2>>}

----------------------------------------------------------------------------
\* State machine.

\* The module is loaded and no GIoULoss object has been constructed.
Init ==
    /\ self_mode = NoMode
    /\ pc = "idle"
    /\ y_true = Unset
    /\ y_pred = Unset
    /\ mode = NoMode
    /\ frame = Unset
    /\ giou = Unset
    /\ loss = Unset

\* GIoULoss.__init__: stores the mode as given, without checking it.
GIoULoss_init ==
    /\ pc = "idle"
    /\ self_mode = NoMode
    /\ \E m \in Modes : self_mode' = m
    /\ UNCHANGED <<pc, y_true, y_pred, mode, frame, giou, loss>>

\* GIoULoss.call: calls giou_loss with the stored mode.
GIoULoss_call ==
    /\ pc = "idle"
    /\ self_mode # NoMode
    /\ \E args \in Inputs :
          /\ y_true' = args[1]
          /\ y_pred' = args[2]
    /\ mode' = self_mode
    /\ pc' = "entered"
    /\ UNCHANGED <<self_mode, frame, giou, loss>>

\* A direct call of giou_loss with any mode string.  giou_loss reads no
\* GIoULoss object, so the direct call is taken in the states without one.
giou_loss_call ==
    /\ pc = "idle"
    /\ self_mode = NoMode
    /\ \E args \in Inputs :
          /\ y_true' = args[1]
          /\ y_pred' = args[2]
    /\ \E m \in Modes : mode' = m
    /\ pc' = "entered"
    /\ UNCHANGED <<self_mode, frame, giou, loss>>

\* The mode check fails: ValueError, and the call is over.
giou_loss_raise ==
    /\ pc = "entered"
    /\ mode \notin ValidModes
    /\ pc' = "error"
    /\ UNCHANGED <<self_mode, y_true, y_pred, mode, frame, giou, loss>>

\* The mode check passes: y_pred is converted, y_true cast to its dtype,
\* giou = do_giou_calculate(y_pred, y_true, mode), and 1 - giou is returned.
giou_loss_compute ==
    /\ pc = "entered"
    /\ mode \in ValidModes
    /\ y_pred' = tf_cast(y_pred)
    /\ y_true' = tf_cast(y_true)
    /\ frame' = do_giou_calculate(y_pred', y_true', mode)
    /\ giou' = Returned_giou(frame')
    /\ loss' = OneMinus(giou')
    /\ pc' = "done"
    /\ UNCHANGED <<self_mode, mode>>

Next ==
    \/ GIoULoss_init
    \/ GIoULoss_call
    \/ giou_loss_call
    \/ giou_loss_raise
    \/ giou_loss_compute

Spec == Init /\ [][Next]_vars

----------------------------------------------------------------------------
\* Vocabulary of the properties.

\* giou_loss has returned its loss.
Returned == pc = "done"

Pairs == 1..Len(y_pred)

LegalModes == {"giou", "iou"}

\* a <= b; false when either side is not finite, as a float comparison is.
RatLeq(a, b) == IsFinite(a) /\ IsFinite(b) /\ a[1] * b[2] <= b[1] * a[2]

RatLt(a, b) == IsFinite(a) /\ IsFinite(b) /\ a[1] * b[2] < b[1] * a[2]

\* The IoU of every row of a result of do_giou_calculate.
IoUOf(f) == [i \in 1..Len(f) |-> f[i].iou]

Q0 == FromInt(0)
Q1 == FromInt(1)
QMinus1 == FromInt(-1)
Q2 == FromInt(2)

\* A box whose two corners share a y or an x coordinate.
ZeroArea(box) == box[1] = box[3] \/ box[2] = box[4]

\* A box given as (max, max, min, min) with positive area.
Inverted(box) == box[1] > box[3] /\ box[2] > box[4]

Lo(box, k) == IF box[k] <= box[k + 2] THEN box[k] ELSE box[k + 2]
Hi(box, k) == IF box[k] >= box[k + 2] THEN box[k] ELSE box[k + 2]

\* A strictly positive gap between the normalised boxes on the y or the x axis.
Separated(a, b) ==
    \E k \in {1, 2} : Hi(a, k) < Lo(b, k) \/ Hi(b, k) < Lo(a, k)

SwapBoth(b) == [i \in 1..Len(b) |-> <<b[i][3], b[i][4], b[i][1], b[i][2]>>]
SwapY(b) == [i \in 1..Len(b) |-> <<b[i][3], b[i][2], b[i][1], b[i][4]>>]
SwapX(b) == [i \in 1..Len(b) |-> <<b[i][1], b[i][4], b[i][3], b[i][2]>>]

----------------------------------------------------------------------------
\* C1: the IoU score of every pair lies in [0, 1], and in mode 'iou' the
\* returned score is that IoU and the loss 1 - iou lies in [0, 1].
Thm_C1_IoUInUnitRange ==
    Returned =>
        \A i \in Pairs :
            /\ RatLeq(Q0, frame[i].iou)
            /\ RatLeq(frame[i].iou, Q1)
            /\ mode = "iou" => giou[i] = frame[i].iou
            /\ mode = "iou" =>
                   RatLeq(Q0, loss[i]) /\ RatLeq(loss[i], Q1)

\* An 'iou' call has returned a score strictly between 0 and 1 for an
\* inverted box.
Wit_C1 ==
    /\ pc = "done"
    /\ mode = "iou"
    /\ Inverted(y_true[1])
    /\ RatLt(Q0, giou[1])
    /\ RatLt(giou[1], Q1)

\* C2: the GIoU score is at most the IoU score of the same pair, which is at
\* most 1, and the two are equal when enclose_area equals union_area.
Thm_C2_GIoULeqIoU ==
    (Returned /\ mode = "giou") =>
        \A iouScore \in {Returned_giou(do_giou_calculate(y_pred, y_true, "iou"))} :
            \A i \in Pairs :
                /\ RatLeq(giou[i], iouScore[i])
                /\ RatLeq(iouScore[i], Q1)
                /\ frame[i].enclose_area = frame[i].union_area =>
                       giou[i] = iouScore[i]

\* A 'giou' call has returned a score strictly below a positive IoU.
Wit_C2 ==
    /\ pc = "done"
    /\ mode = "giou"
    /\ RatLt(Q0, frame[1].iou)
    /\ RatLt(giou[1], frame[1].iou)

\* C3 as stated: the GIoU score is strictly greater than -1 and at most 1,
\* and the loss lies in [0, 2).
Cex_C3_GIoUAboveMinusOne ==
    (Returned /\ mode = "giou") =>
        \A i \in Pairs :
            /\ RatLt(QMinus1, giou[i])
            /\ RatLeq(giou[i], Q1)
            /\ RatLeq(Q0, loss[i]) /\ RatLt(loss[i], Q2)

\* C3 (amended): the GIoU score lies in the closed range [-1, 1], it is -1
\* exactly when union_area is 0 and enclose_area is positive, and the loss
\* lies in [0, 2].
Thm_C3_GIoUInClosedRange ==
    (Returned /\ mode = "giou") =>
        \A i \in Pairs :
            /\ RatLeq(QMinus1, giou[i])
            /\ RatLeq(giou[i], Q1)
            /\ giou[i] = QMinus1 <=>
                   (frame[i].union_area = 0 /\ frame[i].enclose_area > 0)
            /\ RatLeq(Q0, loss[i]) /\ RatLeq(loss[i], Q2)

\* A 'giou' call has returned the loss 2 for two zero-area boxes.
Wit_C3 ==
    /\ pc = "done"
    /\ mode = "giou"
    /\ ZeroArea(y_true[1])
    /\ ZeroArea(y_pred[1])
    /\ giou[1] = QMinus1
    /\ loss[1] = Q2

\* C4 as stated: a box compared with itself has IoU 1 and score 1, and its
\* loss is 0.
Cex_C4_IdenticalBoxes ==
    (Returned /\ y_true = y_pred) =>
        \A i \in Pairs :
            /\ frame[i].iou = Q1
            /\ giou[i] = Q1
            /\ loss[i] = Q0

\* C4 (amended): a box of positive area compared with itself has IoU 1,
\* score 1 and loss 0 in both modes; a zero-area box compared with itself has
\* IoU 0, score 0 and loss 1.
Thm_C4_IdenticalBoxes ==
    (Returned /\ y_true = y_pred) =>
        \A i \in Pairs :
            IF ZeroArea(y_pred[i])
            THEN /\ frame[i].iou = Q0
                 /\ giou[i] = Q0
                 /\ loss[i] = Q1
            ELSE /\ frame[i].iou = Q1
                 /\ giou[i] = Q1
                 /\ loss[i] = Q0

\* A 'giou' call on a positive-area box and itself has returned loss 0.
Wit_C4 ==
    /\ pc = "done"
    /\ mode = "giou"
    /\ y_true = y_pred
    /\ ~ZeroArea(y_pred[1])
    /\ loss[1] = Q0

\* C5 as stated: separated boxes have IoU 0 and a strictly negative GIoU.
Cex_C5_SeparatedBoxes ==
    Returned =>
        \A i \in Pairs :
            Separated(y_pred[i], y_true[i]) =>
                /\ frame[i].iou = Q0
                /\ mode = "giou" => RatLt(giou[i], Q0)

\* C5 (amended): separated boxes have IoU 0 and a GIoU that is at most 0; the
\* GIoU is strictly negative exactly when enclose_area is positive (so
\* whenever one of the boxes has positive area), and is 0 when enclose_area
\* is 0.
Thm_C5_SeparatedBoxes ==
    Returned =>
        \A i \in Pairs :
            Separated(y_pred[i], y_true[i]) =>
                /\ frame[i].iou = Q0
                /\ mode = "giou" =>
                       /\ RatLeq(giou[i], Q0)
                       /\ RatLt(giou[i], Q0) <=> frame[i].enclose_area > 0
                       /\ frame[i].enclose_area = 0 => giou[i] = Q0
                       /\ (~ZeroArea(y_pred[i]) \/ ~ZeroArea(y_true[i])) =>
                              RatLt(giou[i], Q0)

\* A 'giou' call on two separated positive-area boxes has returned a score
\* below 0.
Wit_C5 ==
    /\ pc = "done"
    /\ mode = "giou"
    /\ Separated(y_pred[1], y_true[1])
    /\ ~ZeroArea(y_pred[1])
    /\ ~ZeroArea(y_true[1])
    /\ RatLt(giou[1], Q0)

\* C6: giving either box as (c2,c3,c0,c1), or with only its y or only its x
\* coordinates swapped, leaves the IoU, the returned score and the loss
\* unchanged, in both modes.
Thm_C6_CoordinateOrder ==
    Returned =>
        \A variant \in {<<SwapBoth(y_pred), y_true>>, <<SwapY(y_pred), y_true>>,
                        <<SwapX(y_pred), y_true>>, <<y_pred, SwapBoth(y_true)>>,
                        <<y_pred, SwapY(y_true)>>, <<y_pred, SwapX(y_true)>>} :
            \A other \in {do_giou_calculate(variant[1], variant[2], mode)} :
                /\ IoUOf(other) = IoUOf(frame)
                /\ Returned_giou(other) = giou
                /\ OneMinus(Returned_giou(other)) = loss

\* A call on an inverted box that overlaps the other box has returned.
Wit_C6 ==
    /\ pc = "done"
    /\ Inverted(y_pred[1])
    /\ ~Inverted(y_true[1])
    /\ RatLt(Q0, frame[1].iou)

\* C7: with a zero-area box in the pair the IoU is 0 and the score and the loss
\* are finite; each division gives 0 where its denominator is 0 and the
\* quotient elsewhere.
Thm_C7_ZeroAreaBoxes ==
    Returned =>
        \A i \in Pairs :
            (ZeroArea(y_pred[i]) \/ ZeroArea(y_true[i])) =>
                /\ frame[i].iou = Q0
                /\ IsFinite(giou[i])
                /\ IsFinite(loss[i])
                /\ frame[i].union_area # 0 =>
                       frame[i].iou = Rat(frame[i].intersect_area, frame[i].union_area)
                /\ mode = "giou" =>
                       /\ frame[i].enclose_area = 0 => frame[i].penalty = Q0
                       /\ frame[i].enclose_area # 0 =>
                              frame[i].penalty =
                                  Rat(frame[i].enclose_area - frame[i].union_area,
                                      frame[i].enclose_area)
                       /\ giou[i] = RatSub(frame[i].iou, frame[i].penalty)

\* A 'giou' call in which both denominators are 0 has returned.
Wit_C7 ==
    /\ pc = "done"
    /\ mode = "giou"
    /\ ZeroArea(y_pred[1])
    /\ frame[1].union_area = 0
    /\ frame[1].enclose_area = 0
    /\ loss[1] = Q1

\* C8: a call whose mode is neither 'iou' nor 'giou' goes from its entry
\* straight to the error, with nothing computed and nothing returned, and
\* stays there; a call whose mode is 'iou' or 'giou' never reaches the error.
Thm_C8_InvalidMode ==
    /\ [](pc = "error" =>
              /\ mode \notin LegalModes
              /\ frame = Unset
              /\ giou = Unset
              /\ loss = Unset)
    /\ [](pc = "done" => mode \in LegalModes)
    /\ [][(pc = "entered" /\ mode \notin LegalModes) =>
              (pc' = "error" /\ UNCHANGED <<frame, giou, loss>>)]_vars
    /\ [][pc = "error" => pc' = "error"]_vars

\* A GIoULoss object constructed with mode 'xiou' has been called and the
\* call has ended in the error.
Wit_C8 ==
    /\ pc = "error"
    /\ self_mode = "xiou"
    /\ mode = "xiou"

\* C9: on the usage example the 'giou' losses are 43/40 and 29/15, the scores
\* -3/40 and -14/15, and each is what the pair gives when computed alone.
Thm_C9_WorkedExample ==
    (pc = "done" /\ mode = "giou" /\ y_true = boxes1 /\ y_pred = boxes2) =>
        /\ giou = << <<-3, 40>>, <<-14, 15>> >>
        /\ loss = << <<43, 40>>, <<29, 15>> >>
        /\ \A i \in Pairs :
               loss[i] =
                   OneMinus(Returned_giou(
                       do_giou_calculate(<<y_pred[i]>>, <<y_true[i]>>, mode)))[1]

\* The 'giou' call on the usage example has returned.
Wit_C9 ==
    /\ pc = "done"
    /\ mode = "giou"
    /\ y_true = boxes1
    /\ y_pred = boxes2
    /\ Len(loss) = 2

\* C10: do_giou_calculate gives the same score with its two boxes exchanged,
\* so the loss is the one giou_loss would return had it passed y_true first.
Thm_C10_Symmetry ==
    Returned =>
        \A exchanged \in {do_giou_calculate(y_true, y_pred, mode)} :
            /\ Returned_giou(exchanged) = giou
            /\ IoUOf(exchanged) = IoUOf(frame)
            /\ OneMinus(Returned_giou(exchanged)) = loss

\* A call on two overlapping boxes of different areas has returned.
Wit_C10 ==
    /\ pc = "done"
    /\ frame[1].b1_area # frame[1].b2_area
    /\ RatLt(Q0, frame[1].iou)
    /\ RatLt(frame[1].iou, Q1)

=============================================================================
